---- MODULE Spec2Model ----
(***************************************************************************)
(* Model of the two demo programs of the repository:                       *)
(*   src/src/app.py                     the file-variant application       *)
(*   src/examples/simple-project/src/   the environment-variant project    *)
(*                                      (config.py, utils.py, main.py)     *)
(*                                                                         *)
(* Python values are tagged records (field t is the Python type name), a   *)
(* Python str is a sequence of one-character strings, a Python dict is a   *)
(* function from its keys.  Every function and method is an operator that  *)
(* returns the exception that escapes it (exc), its return value (ret) and *)
(* the state it leaves its receiver and its arguments in; every action     *)
(* is one call made by a client of the code.                               *)
(***************************************************************************)
EXTENDS Integers, Sequences, FiniteSets, TLC

VARIABLES
    program,   \* which of the two programs the behaviour is about
    file,      \* app.py: what is found at config_path
    app,       \* app.py: the AzureDevOpsApp object, NoObject before __init__
    app0,      \* app.py: the object as __init__ left it
    environ,   \* simple-project: os.environ
    cfg,       \* simple-project: the Config object, NoObject before __init__
    cfg0,      \* simple-project: the object as __init__ left it
    called,    \* the last call made
    args,      \* the caller's argument objects, as they were before the call
    argsAfter, \* the same objects after the call
    ret,       \* the value the last call returned
    exc,       \* the exception that escaped the last call, "none" without one
    stdout     \* what the last call printed

vars == <<program, file, app, app0, environ, cfg, cfg0, called, args, argsAfter,
          ret, exc, stdout>>

-----------------------------------------------------------------------------
(* Bounds of the model *)

\* longest message and prefix handed to format_message
MaxLen == 2
\* last instant datetime.now() can return
MaxClock == 1

-----------------------------------------------------------------------------
(* Python values *)

PyNone == [t |-> "NoneType"]
PyStr(s) == [t |-> "str", s |-> s]
PyBool(b) == [t |-> "bool", b |-> b]
PyInt(n) == [t |-> "int", n |-> n]
PyList(l) == [t |-> "list", l |-> l]
PyDict(d) == [t |-> "dict", d |-> d]

NoObject == [t |-> "unbound"]
NoFile == [kind |-> "none"]
NoException == "none"
EmptyDict == [k \in {} |-> PyNone]

\* dict.get(key, default)
get(d, key, default) == IF key \in DOMAIN d THEN d[key] ELSE default

\* the dicts with keys among keys and values among values
Dicts(keys, values) == UNION {[S -> values] : S \in SUBSET keys}

\* the strings of at most n characters over chars
Strings(chars, n) == UNION {[1..k -> chars] : k \in 0..n}

Timestamps == 0..MaxClock
Digits == <<"0", "1", "2", "3", "4", "5", "6", "7", "8", "9">>
\* datetime.isoformat() of the instant now
isoformat(now) == <<"T">> \o <<Digits[(now % 10) + 1]>>

-----------------------------------------------------------------------------
(* src/src/app.py *)

V_1_0_0 == <<"1", ".", "0", ".", "0">>
S_development == <<"d", "e", "v", "e", "l", "o", "p", "m", "e", "n", "t">>
S_unknown == <<"u", "n", "k", "n", "o", "w", "n">>
S_healthy == <<"h", "e", "a", "l", "t", "h", "y">>
S_processed == <<"p", "r", "o", "c", "e", "s", "s", "e", "d">>
S_login == <<"l", "o", "g", "i", "n">>

\* the values a JSON document of the model holds under a key
JsonValues == {PyStr(<<"2", ".", "0">>), PyStr(<<>>), PyNone, PyInt(7)}
JsonKeys == {"version", "environment", "debug", "extra"}
\* the keys a config file of the model holds; app.py reads the first two
FileKeys == {"version", "environment", "debug"}
\* the documents json.load can return: objects, and the other JSON values
JsonDocs ==
    {PyDict(d) : d \in Dicts(FileKeys, JsonValues)}
        \cup {PyList(<<>>), PyStr(<<"x">>), PyInt(7), PyNone, PyBool(TRUE)}

\* what open(config_path) and the read of the file can meet
FileStates ==
    {[kind |-> "missing"]}
        \cup {[kind |-> "unreadable", error |-> e] :
                e \in {"PermissionError", "IsADirectoryError"}}
        \cup {[kind |-> "bytes"]}
        \cup {[kind |-> "text", wellformed |-> FALSE]}
        \cup {[kind |-> "text", wellformed |-> TRUE, doc |-> j] : j \in JsonDocs}

\* open(config_path, 'r'): the exception it raises
open(f) ==
    CASE f.kind = "missing" -> "FileNotFoundError"
      [] f.kind = "unreadable" -> f.error
      [] OTHER -> NoException

\* json.load(f): reads and decodes the file, then parses the text
json_load(f) ==
    IF f.kind = "bytes" THEN [exc |-> "UnicodeDecodeError"]
    ELSE IF ~f.wellformed THEN [exc |-> "JSONDecodeError"]
    ELSE [exc |-> NoException, ret |-> f.doc]

DefaultConfig ==
    PyDict([k \in {"version", "environment", "debug"} |->
        CASE k = "version" -> PyStr(V_1_0_0)
          [] k = "environment" -> PyStr(S_development)
          [] k = "debug" -> PyBool(TRUE)])

\* _load_config with the missing file answered by the empty record
_load_config_no_default(f) ==
    LET opened == open(f)
        loaded == json_load(f)
        raised == IF opened # NoException THEN opened ELSE loaded.exc
    IN  CASE raised = NoException -> [exc |-> NoException, ret |-> loaded.ret]
          [] raised = "FileNotFoundError" -> [exc |-> NoException, ret |-> PyDict(EmptyDict)]
          [] raised = "JSONDecodeError" -> [exc |-> NoException, ret |-> PyDict(EmptyDict)]
          [] OTHER -> [exc |-> raised]

\* AzureDevOpsApp._load_config
_load_config(f) ==
    LET opened == open(f)
        loaded == json_load(f)
        raised == IF opened # NoException THEN opened ELSE loaded.exc
    IN  CASE raised = NoException -> [exc |-> NoException, ret |-> loaded.ret]
          [] raised = "FileNotFoundError" -> [exc |-> NoException, ret |-> DefaultConfig]
          [] raised = "JSONDecodeError" -> [exc |-> NoException, ret |-> PyDict(EmptyDict)]
          [] OTHER -> [exc |-> raised]

\* __init__ with the empty string as the version of a record without one
AppInit_empty_default(f) ==
    LET loaded == _load_config(f)
    IN  IF loaded.exc # NoException THEN [exc |-> loaded.exc, self |-> NoObject]
        ELSE IF loaded.ret.t # "dict" THEN [exc |-> "AttributeError", self |-> NoObject]
        ELSE [exc |-> NoException,
              self |-> [config |-> loaded.ret,
                        version |-> get(loaded.ret.d, "version", PyStr(<<>>))]]

\* AzureDevOpsApp.__init__
AppInit(f) ==
    LET loaded == _load_config(f)
    IN  IF loaded.exc # NoException THEN [exc |-> loaded.exc, self |-> NoObject]
        ELSE IF loaded.ret.t # "dict" THEN [exc |-> "AttributeError", self |-> NoObject]
        ELSE [exc |-> NoException,
              self |-> [config |-> loaded.ret,
                        version |-> get(loaded.ret.d, "version", PyStr(V_1_0_0))]]

\* get_status with the environment of the default record as its fallback
get_status_default_environment(self, now) ==
    [exc |-> NoException,
     self |-> self,
     ret |-> PyDict([k \in {"status", "version", "timestamp", "environment"} |->
        CASE k = "status" -> PyStr(S_healthy)
          [] k = "version" -> self.version
          [] k = "timestamp" -> PyStr(isoformat(now))
          [] k = "environment" -> get(self.config.d, "environment", PyStr(S_development))])]

\* AzureDevOpsApp.get_status
get_status(self, now) ==
    [exc |-> NoException,
     self |-> self,
     ret |-> PyDict([k \in {"status", "version", "timestamp", "environment"} |->
        CASE k = "status" -> PyStr(S_healthy)
          [] k = "version" -> self.version
          [] k = "timestamp" -> PyStr(isoformat(now))
          [] k = "environment" -> get(self.config.d, "environment", PyStr(S_unknown))])]

\* process_data with the version read again from the record, without a fallback
process_data_config_version(self, data, now) ==
    [exc |-> NoException,
     self |-> self,
     data |-> data,
     ret |-> PyDict([k \in {"original_data", "processed_at", "status", "version"} |->
        CASE k = "original_data" -> data
          [] k = "processed_at" -> PyStr(isoformat(now))
          [] k = "status" -> PyStr(S_processed)
          [] k = "version" -> get(self.config.d, "version", PyNone)])]

\* process_data that writes its fields into the dict it is handed
process_data_in_place(self, data, now) ==
    LET fields == [k \in {"processed_at", "status", "version"} |->
            CASE k = "processed_at" -> PyStr(isoformat(now))
              [] k = "status" -> PyStr(S_processed)
              [] k = "version" -> self.version]
        written == IF data.t = "dict" THEN PyDict(fields @@ data.d) ELSE data
    IN  [exc |-> NoException,
         self |-> self,
         data |-> written,
         ret |-> PyDict([k \in {"original_data"} |-> written] @@ fields)]

\* AzureDevOpsApp.process_data
process_data(self, data, now) ==
    [exc |-> NoException,
     self |-> self,
     data |-> data,
     ret |-> PyDict([k \in {"original_data", "processed_at", "status", "version"} |->
        CASE k = "original_data" -> data
          [] k = "processed_at" -> PyStr(isoformat(now))
          [] k = "status" -> PyStr(S_processed)
          [] k = "version" -> self.version])]

\* json.dumps(obj, indent=2): the text, kept as the value it renders
json_dumps(obj) == [dumps |-> obj, indent |-> 2]

\* AzureDevOpsApp.run
run(self, t1, t2, t3) ==
    LET sample_data == PyDict([k \in {"user_id", "action", "timestamp"} |->
            CASE k = "user_id" -> PyInt(12345)
              [] k = "action" -> PyStr(S_login)
              [] k = "timestamp" -> PyStr(isoformat(t1))])
        result == process_data(self, sample_data, t2)
        status == get_status(result.self, t3)
    IN  [exc |-> NoException,
         self |-> status.self,
         ret |-> PyNone,
         stdout |-> <<json_dumps(result.ret), json_dumps(status.ret)>>]

\* main of app.py
AppMain(f, t1, t2, t3) ==
    LET made == AppInit(f)
        ran == run(made.self, t1, t2, t3)
    IN  IF made.exc # NoException THEN [ret |-> 1, stdout |-> <<>>]
        ELSE IF ran.exc # NoException THEN [ret |-> 1, stdout |-> <<>>]
        ELSE [ret |-> 0, stdout |-> ran.stdout]

-----------------------------------------------------------------------------
(* src/examples/simple-project/src/config.py *)

S_true == <<"t", "r", "u", "e">>
S_DEMO == <<"[", "D", "E", "M", "O", "]">>

\* os.getenv(key, default)
getenv(env, key, default) == IF key \in DOMAIN env THEN env[key] ELSE default

\* the lowercase of one character
LowerChar(c) ==
    CASE c = "T" -> "t"
      [] c = "R" -> "r"
      [] c = "U" -> "u"
      [] c = "E" -> "e"
      [] c = "F" -> "f"
      [] c = "A" -> "a"
      [] c = "L" -> "l"
      [] c = "S" -> "s"
      [] OTHER -> c

\* str.lower()
str_lower(s) == [i \in 1..Len(s) |-> LowerChar(s[i])]

\* str(value), as an f-string renders a field
py_str(v) ==
    CASE v.t = "str" -> v.s
      [] v.t = "bool" -> IF v.b THEN <<"T", "r", "u", "e">> ELSE <<"F", "a", "l", "s", "e">>
      [] v.t = "NoneType" -> <<"N", "o", "n", "e">>

\* __init__ with the version read from the environment like the other fields
ConfigInit_env_version(env) ==
    [exc |-> NoException,
     self |-> [version |-> PyStr(getenv(env, "VERSION", V_1_0_0)),
               environment |-> PyStr(getenv(env, "ENVIRONMENT", S_development)),
               debug |-> PyBool(str_lower(getenv(env, "DEBUG", S_true)) = S_true),
               message_prefix |-> PyStr(getenv(env, "MESSAGE_PREFIX", S_DEMO))]]

\* __init__ with DEBUG compared as it is written
ConfigInit_no_lower(env) ==
    [exc |-> NoException,
     self |-> [version |-> PyStr(V_1_0_0),
               environment |-> PyStr(getenv(env, "ENVIRONMENT", S_development)),
               debug |-> PyBool(getenv(env, "DEBUG", S_true) = S_true),
               message_prefix |-> PyStr(getenv(env, "MESSAGE_PREFIX", S_DEMO))]]

\* Config.__init__
ConfigInit(env) ==
    [exc |-> NoException,
     self |-> [version |-> PyStr(V_1_0_0),
               environment |-> PyStr(getenv(env, "ENVIRONMENT", S_development)),
               debug |-> PyBool(str_lower(getenv(env, "DEBUG", S_true)) = S_true),
               message_prefix |-> PyStr(getenv(env, "MESSAGE_PREFIX", S_DEMO))]]

\* Config.to_dict
to_dict(self) ==
    [exc |-> NoException,
     self |-> self,
     ret |-> PyDict([k \in {"version", "environment", "debug", "message_prefix"} |->
        CASE k = "version" -> self.version
          [] k = "environment" -> self.environment
          [] k = "debug" -> self.debug
          [] k = "message_prefix" -> self.message_prefix])]

\* Config.__str__
ConfigStr(self) ==
    [exc |-> NoException,
     self |-> self,
     ret |-> PyStr(<<"C", "o", "n", "f", "i", "g", "(", "v", "e", "r", "s", "i", "o", "n", "=">> \o py_str(self.version)
                \o <<",", " ", "e", "n", "v", "=">> \o py_str(self.environment)
                \o <<",", " ", "d", "e", "b", "u", "g", "=">> \o py_str(self.debug) \o <<")">>)]

-----------------------------------------------------------------------------
(* src/examples/simple-project/src/utils.py *)

\* the truth value of a value in an if
truthy(v) ==
    CASE v.t = "NoneType" -> FALSE
      [] v.t = "str" -> Len(v.s) > 0
      [] v.t = "bool" -> v.b
      [] v.t = "int" -> v.n # 0
      [] v.t = "list" -> Len(v.l) > 0
      [] v.t = "dict" -> DOMAIN v.d # {}

\* format_message with the test "prefix is not None"
format_message_is_not_none(message, prefix) ==
    [exc |-> NoException,
     message |-> message,
     prefix |-> prefix,
     ret |-> IF prefix.t # "NoneType"
             THEN PyStr(py_str(prefix) \o <<" ">> \o py_str(message))
             ELSE message]

\* format_message(message, prefix)
format_message(message, prefix) ==
    [exc |-> NoException,
     message |-> message,
     prefix |-> prefix,
     ret |-> IF truthy(prefix)
             THEN PyStr(py_str(prefix) \o <<" ">> \o py_str(message))
             ELSE message]

\* get_timestamp()
get_timestamp(now) == [exc |-> NoException, ret |-> PyStr(isoformat(now))]

required_keys == <<"version", "environment">>

\* the for loop of validate_config, from the i-th required key on
RECURSIVE validate_loop(_, _)
validate_loop(config_dict, i) ==
    IF i > Len(required_keys) THEN TRUE
    ELSE IF required_keys[i] \notin DOMAIN config_dict.d THEN FALSE
    ELSE validate_loop(config_dict, i + 1)

\* validate_config with the test "not config_dict.get(key)"
validate_config_truthy(config_dict) ==
    [exc |-> NoException,
     config_dict |-> config_dict,
     ret |-> PyBool(\A i \in 1..Len(required_keys) :
                truthy(get(config_dict.d, required_keys[i], PyNone)))]

\* validate_config(config_dict)
validate_config(config_dict) ==
    [exc |-> NoException,
     config_dict |-> config_dict,
     ret |-> PyBool(validate_loop(config_dict, 1))]

\* safe_get(dictionary, key, default)
safe_get(dictionary, key, default) ==
    [exc |-> NoException,
     dictionary |-> dictionary,
     ret |-> get(dictionary.d, key, default)]

-----------------------------------------------------------------------------
(* src/examples/simple-project/src/main.py *)

S_Hello == <<"H", "e", "l", "l", "o", " ", "f", "r", "o", "m", " ", "A", "z", "u", "r", "e", " ", "D", "e", "v", "O", "p", "s", " ", "G", "i", "t", " ", "D", "e", "m", "o", "!">>

\* print(...): one printed line, its literal text and the value interpolated
Line(text, value) == [text |-> text, value |-> value]

\* main of the simple project
SimpleMain(env, now) ==
    LET config == ConfigInit(env).self
        formatted_message == format_message(PyStr(S_Hello), config.message_prefix).ret
        head == <<Line("=== Simple Project Demo ===", <<>>),
                  Line("Version: ", py_str(config.version)),
                  Line("Environment: ", py_str(config.environment)),
                  Line("Started at: ", py_str(get_timestamp(now).ret)),
                  Line("\n", py_str(formatted_message))>>
        debug == <<Line("\nDebug info:", <<>>),
                   Line("- Config loaded: ok", <<>>),
                   Line("- Utils imported: ok", <<>>),
                   Line("- Application running: ok", <<>>)>>
    IN  [exc |-> NoException,
         ret |-> 0,
         stdout |-> IF truthy(config.debug) THEN head \o debug ELSE head]

-----------------------------------------------------------------------------
(* The inputs *)

\* the values process_data is handed
DataValues ==
    {PyDict(EmptyDict), PyDict([k \in {"action"} |-> PyStr(S_login)]), PyNone,
     PyStr(<<>>), PyInt(7)}

\* the uppercase of one character
UpperChar(c) ==
    CASE c = "t" -> "T"
      [] c = "r" -> "R"
      [] c = "u" -> "U"
      [] c = "e" -> "E"
      [] OTHER -> c

\* word in every mix of upper and lower case
CaseVariants(word) ==
    {s \in [1..Len(word) -> {word[i] : i \in 1..Len(word)}
                              \cup {UpperChar(word[i]) : i \in 1..Len(word)}] :
        \A i \in 1..Len(word) : s[i] \in {word[i], UpperChar(word[i])}}

\* the values a variable of the environment can be set to
EnvValues(name) ==
    CASE name = "VERSION" -> {<<"2", ".", "0">>}
      [] name = "ENVIRONMENT" -> {<<>>, <<"p", "r", "o", "d", "u", "c", "t", "i", "o", "n">>}
      [] name = "DEBUG" ->
            CaseVariants(S_true)
                \cup {<<>>, <<"1">>, <<"t", "r", "u">>, <<"r", "t", "u", "e">>,
                      <<"t", "r", "u", "e", " ">>, <<"f", "a", "l", "s", "e">>, <<"F", "A", "L", "S", "E">>}
      [] name = "MESSAGE_PREFIX" -> {<<>>, <<"[", "T", "E", "S", "T", "]">>}

\* name unset, or set to one of its values
EnvChoice(name) == {EmptyDict} \cup {[k \in {name} |-> v] : v \in EnvValues(name)}

Environments ==
    {a @@ b @@ c @@ d :
        a \in EnvChoice("VERSION"), b \in EnvChoice("ENVIRONMENT"),
        c \in EnvChoice("DEBUG"), d \in EnvChoice("MESSAGE_PREFIX")}

TextChars == {"a", " "}

\* format_message(message) and format_message(message, prefix)
FormatArgs ==
    {[fn |-> "format_message", message |-> PyStr(m)] : m \in Strings(TextChars, MaxLen)}
        \cup {[fn |-> "format_message", message |-> PyStr(m), prefix |-> p] :
                m \in Strings(TextChars, MaxLen),
                p \in {PyNone} \cup {PyStr(x) : x \in Strings(TextChars, MaxLen)}}

ValidateArgs ==
    {[fn |-> "validate_config", config_dict |-> PyDict(d)] :
        d \in Dicts(JsonKeys, JsonValues)}

SafeGetArgs ==
    {[fn |-> "safe_get", dictionary |-> PyDict(d), key |-> k] :
        d \in Dicts({"key1", "key2"}, {PyNone, PyStr(<<"v">>)}), k \in {"key1", "key2"}}
        \cup {[fn |-> "safe_get", dictionary |-> PyDict(d), key |-> k, default |-> v] :
                d \in Dicts({"key1", "key2"}, {PyNone, PyStr(<<"v">>)}),
                k \in {"key1", "key2"}, v \in {PyNone, PyStr(<<"d">>)}}

TimestampArgs == {[fn |-> "get_timestamp"]}

NoArgs == [fn |-> "none"]

-----------------------------------------------------------------------------
(* The state machine *)

Idle ==
    /\ app = NoObject /\ app0 = NoObject
    /\ cfg = NoObject /\ cfg0 = NoObject
    /\ called = "none"
    /\ argsAfter = NoArgs
    /\ ret = PyNone
    /\ exc = NoException
    /\ stdout = <<>>

InitApp ==
    /\ program = "app"
    /\ file \in FileStates
    /\ environ = EmptyDict
    /\ args = NoArgs
    /\ Idle

InitSimple ==
    /\ program = "simple-project"
    /\ file = NoFile
    /\ environ \in Environments
    /\ args = NoArgs
    /\ Idle

InitUtils ==
    /\ program = "utils"
    /\ file = NoFile
    /\ environ = EmptyDict
    /\ args \in FormatArgs \cup ValidateArgs \cup SafeGetArgs \cup TimestampArgs
    /\ Idle

Init == InitApp \/ InitSimple \/ InitUtils

\* app._load_config(config_path)
LoadConfig ==
    /\ program = "app"
    /\ LET r == _load_config(file)
       IN  /\ called' = "_load_config"
           /\ exc' = r.exc
           /\ ret' = IF r.exc = NoException THEN r.ret ELSE PyNone
    /\ args' = NoArgs /\ argsAfter' = NoArgs /\ stdout' = <<>>
    /\ UNCHANGED <<program, file, app, app0, environ, cfg, cfg0>>

\* app = AzureDevOpsApp()
Construct ==
    /\ program = "app"
    /\ app = NoObject
    /\ LET r == AppInit(file)
       IN  /\ called' = "AzureDevOpsApp"
           /\ exc' = r.exc
           /\ app' = r.self
           /\ app0' = r.self
    /\ ret' = PyNone /\ args' = NoArgs /\ argsAfter' = NoArgs /\ stdout' = <<>>
    /\ UNCHANGED <<program, file, environ, cfg, cfg0>>

\* app.get_status()
GetStatus ==
    /\ program = "app"
    /\ app # NoObject
    /\ \E now \in Timestamps :
        LET r == get_status(app, now)
        IN  /\ called' = "get_status"
            /\ exc' = r.exc
            /\ ret' = r.ret
            /\ app' = r.self
    /\ args' = NoArgs /\ argsAfter' = NoArgs /\ stdout' = <<>>
    /\ UNCHANGED <<program, file, app0, environ, cfg, cfg0>>

\* app.process_data(data)
ProcessData ==
    /\ program = "app"
    /\ app # NoObject
    /\ \E data \in DataValues, now \in Timestamps :
        LET r == process_data(app, data, now)
        IN  /\ called' = "process_data"
            /\ args' = [fn |-> "process_data", data |-> data]
            /\ argsAfter' = [fn |-> "process_data", data |-> r.data]
            /\ exc' = r.exc
            /\ ret' = r.ret
            /\ app' = r.self
    /\ stdout' = <<>>
    /\ UNCHANGED <<program, file, app0, environ, cfg, cfg0>>

\* app.run()
Run ==
    /\ program = "app"
    /\ app # NoObject
    /\ \E t1 \in Timestamps, t2 \in Timestamps, t3 \in Timestamps :
        LET r == run(app, t1, t2, t3)
        IN  /\ called' = "run"
            /\ exc' = r.exc
            /\ ret' = r.ret
            /\ app' = r.self
            /\ stdout' = r.stdout
    /\ args' = NoArgs /\ argsAfter' = NoArgs
    /\ UNCHANGED <<program, file, app0, environ, cfg, cfg0>>

\* main() of app.py, which makes and runs an application of its own
Main ==
    /\ program = "app"
    /\ \E t1 \in Timestamps, t2 \in Timestamps, t3 \in Timestamps :
        LET r == AppMain(file, t1, t2, t3)
        IN  /\ called' = "main"
            /\ ret' = r.ret
            /\ stdout' = r.stdout
    /\ exc' = NoException /\ args' = NoArgs /\ argsAfter' = NoArgs
    /\ UNCHANGED <<program, file, app, app0, environ, cfg, cfg0>>

\* config = Config()
NewConfig ==
    /\ program = "simple-project"
    /\ cfg = NoObject
    /\ LET r == ConfigInit(environ)
       IN  /\ called' = "Config"
           /\ exc' = r.exc
           /\ cfg' = r.self
           /\ cfg0' = r.self
    /\ ret' = PyNone /\ args' = NoArgs /\ argsAfter' = NoArgs /\ stdout' = <<>>
    /\ UNCHANGED <<program, file, app, app0, environ>>

\* config.to_dict()
ToDict ==
    /\ program = "simple-project"
    /\ cfg # NoObject
    /\ LET r == to_dict(cfg)
       IN  /\ called' = "to_dict"
           /\ exc' = r.exc
           /\ ret' = r.ret
           /\ cfg' = r.self
    /\ args' = NoArgs /\ argsAfter' = NoArgs /\ stdout' = <<>>
    /\ UNCHANGED <<program, file, app, app0, environ, cfg0>>

\* str(config)
Str ==
    /\ program = "simple-project"
    /\ cfg # NoObject
    /\ LET r == ConfigStr(cfg)
       IN  /\ called' = "__str__"
           /\ exc' = r.exc
           /\ ret' = r.ret
           /\ cfg' = r.self
    /\ args' = NoArgs /\ argsAfter' = NoArgs /\ stdout' = <<>>
    /\ UNCHANGED <<program, file, app, app0, environ, cfg0>>

\* main() of the simple project, which makes a Config of its own
MainSimple ==
    /\ program = "simple-project"
    /\ \E now \in Timestamps :
        LET r == SimpleMain(environ, now)
        IN  /\ called' = "main"
            /\ exc' = r.exc
            /\ ret' = r.ret
            /\ stdout' = r.stdout
    /\ args' = NoArgs /\ argsAfter' = NoArgs
    /\ UNCHANGED <<program, file, app, app0, environ, cfg, cfg0>>

\* format_message(message) or format_message(message, prefix)
FormatMessage ==
    /\ program = "utils"
    /\ args.fn = "format_message"
    /\ LET prefix == IF "prefix" \in DOMAIN args THEN args.prefix ELSE PyNone
           r == format_message(args.message, prefix)
       IN  /\ called' = "format_message"
           /\ exc' = r.exc
           /\ ret' = r.ret
           /\ argsAfter' = IF "prefix" \in DOMAIN args
                           THEN [fn |-> args.fn, message |-> r.message, prefix |-> r.prefix]
                           ELSE [fn |-> args.fn, message |-> r.message]
    /\ stdout' = <<>>
    /\ UNCHANGED <<program, file, app, app0, environ, cfg, cfg0, args>>

\* get_timestamp()
GetTimestamp ==
    /\ program = "utils"
    /\ args.fn = "get_timestamp"
    /\ \E now \in Timestamps :
        LET r == get_timestamp(now)
        IN  /\ called' = "get_timestamp"
            /\ exc' = r.exc
            /\ ret' = r.ret
    /\ argsAfter' = args /\ stdout' = <<>>
    /\ UNCHANGED <<program, file, app, app0, environ, cfg, cfg0, args>>

\* validate_config(config_dict)
ValidateConfig ==
    /\ program = "utils"
    /\ args.fn = "validate_config"
    /\ LET r == validate_config(args.config_dict)
       IN  /\ called' = "validate_config"
           /\ exc' = r.exc
           /\ ret' = r.ret
           /\ argsAfter' = [fn |-> args.fn, config_dict |-> r.config_dict]
    /\ stdout' = <<>>
    /\ UNCHANGED <<program, file, app, app0, environ, cfg, cfg0, args>>

\* safe_get(dictionary, key) or safe_get(dictionary, key, default)
SafeGet ==
    /\ program = "utils"
    /\ args.fn = "safe_get"
    /\ LET default == IF "default" \in DOMAIN args THEN args.default ELSE PyNone
           r == safe_get(args.dictionary, args.key, default)
       IN  /\ called' = "safe_get"
           /\ exc' = r.exc
           /\ ret' = r.ret
           /\ argsAfter' = [args EXCEPT !.dictionary = r.dictionary]
    /\ stdout' = <<>>
    /\ UNCHANGED <<program, file, app, app0, environ, cfg, cfg0, args>>

Next ==
    \/ LoadConfig
    \/ Construct
    \/ GetStatus
    \/ ProcessData
    \/ Run
    \/ Main
    \/ NewConfig
    \/ ToDict
    \/ Str
    \/ MainSimple
    \/ FormatMessage
    \/ GetTimestamp
    \/ ValidateConfig
    \/ SafeGet

Spec == Init /\ [][Next]_vars

-----------------------------------------------------------------------------
(* The claims *)

NonEmptyStr(v) == v.t = "str" /\ Len(v.s) > 0

Malformed(f) == f.kind = "text" /\ ~f.wellformed

\* s is word (written in lower case) up to the case of its letters
EqualsIgnoreCase(s, word) ==
    /\ Len(s) = Len(word)
    /\ \A i \in 1..Len(word) : s[i] = word[i] \/ s[i] = UpperChar(word[i])

\* C1, as stated: _load_config never raises to its caller, whatever is found
\* at the path.
C1_NeverRaises ==
    called = "_load_config" => exc = NoException

\* C1, amended: _load_config returns the three-field default record when the
\* path does not exist, the empty record when the text of the file is not
\* valid JSON and the parsed value when it is; any other failure to open or
\* read the file (permission denied, a directory, bytes that do not decode)
\* is not caught and is raised to the caller.
C1_LoadConfig ==
    called = "_load_config" =>
        /\ file.kind = "missing" =>
            /\ exc = NoException
            /\ ret.t = "dict"
            /\ DOMAIN ret.d = {"version", "environment", "debug"}
            /\ ret.d["version"] = PyStr(<<"1", ".", "0", ".", "0">>)
            /\ ret.d["environment"] = PyStr(<<"d", "e", "v", "e", "l", "o", "p", "m", "e", "n", "t">>)
            /\ ret.d["debug"] = PyBool(TRUE)
        /\ Malformed(file) =>
            /\ exc = NoException
            /\ ret.t = "dict"
            /\ DOMAIN ret.d = {}
        /\ (file.kind = "text" /\ file.wellformed) =>
            /\ exc = NoException
            /\ ret = file.doc
        /\ file.kind = "unreadable" => exc = file.error
        /\ file.kind = "bytes" => exc = "UnicodeDecodeError"

C1_Witness ==
    /\ called = "_load_config"
    /\ file.kind = "unreadable"
    /\ exc = "PermissionError"

\* C2: main() of app.py returns 1 exactly when making or running the
\* application raises, and whatever the config file holds (nothing, malformed
\* JSON or any other text) it returns 0.
C2_MainExitCode ==
    (program = "app" /\ called = "main") =>
        /\ ret = 1 <=> AppInit(file).exc # NoException
        /\ ret \in {0, 1}
        /\ file.kind \in {"missing", "text"} => ret = 0

\* C3: format_message returns prefix, one space and message when the prefix
\* is a non-empty string, and message unchanged when the prefix is left out,
\* None or the empty string.
C3_FormatMessage ==
    called = "format_message" =>
        LET m == args.message.s
            present == /\ "prefix" \in DOMAIN args
                       /\ args.prefix.t = "str"
                       /\ Len(args.prefix.s) > 0
        IN  /\ exc = NoException
            /\ present =>
                LET p == args.prefix.s
                IN  /\ ret.t = "str"
                    /\ Len(ret.s) = Len(p) + 1 + Len(m)
                    /\ \A i \in 1..Len(p) : ret.s[i] = p[i]
                    /\ ret.s[Len(p) + 1] = " "
                    /\ \A i \in 1..Len(m) : ret.s[Len(p) + 1 + i] = m[i]
            /\ ~present => ret = args.message

C3_Witness ==
    /\ called = "format_message"
    /\ "prefix" \in DOMAIN args
    /\ args.prefix = PyStr(<<"a">>)
    /\ args.message = PyStr(<<"a", " ">>)
    /\ ret = PyStr(<<"a", " ", "a", " ">>)

\* C4: validate_config is true exactly when the keys version and environment
\* are both in the mapping, whatever is stored under them and whatever other
\* keys there are, and it leaves the mapping as it was.
C4_ValidateConfig ==
    called = "validate_config" =>
        /\ exc = NoException
        /\ ret = PyBool({"version", "environment"} \subseteq DOMAIN args.config_dict.d)
        /\ DOMAIN args.config_dict.d = {} => ret = PyBool(FALSE)
        /\ argsAfter = args

C4_Witness ==
    /\ called = "validate_config"
    /\ DOMAIN args.config_dict.d = {"version", "environment", "extra"}
    /\ args.config_dict.d["version"] = PyNone
    /\ args.config_dict.d["environment"] = PyStr(<<>>)
    /\ ret = PyBool(TRUE)

\* C5, as stated: Config() takes each of its four fields, version among them,
\* from its own environment variable and falls back on the default only when
\* the variable is not set.
C5_FourFromEnvironment ==
    cfg # NoObject =>
        /\ cfg.version = PyStr(IF "VERSION" \in DOMAIN environ
                               THEN environ["VERSION"] ELSE V_1_0_0)
        /\ cfg.environment = PyStr(IF "ENVIRONMENT" \in DOMAIN environ
                                   THEN environ["ENVIRONMENT"] ELSE S_development)
        /\ "DEBUG" \notin DOMAIN environ => cfg.debug = PyBool(TRUE)
        /\ cfg.message_prefix = PyStr(IF "MESSAGE_PREFIX" \in DOMAIN environ
                                      THEN environ["MESSAGE_PREFIX"] ELSE S_DEMO)

\* C5, amended: Config() takes environment, debug and message_prefix from
\* the variables ENVIRONMENT, DEBUG and MESSAGE_PREFIX and falls back on the
\* defaults "development", true and "[DEMO]" only when the variable is not
\* set; version is "1.0.0" whatever the environment holds.
C5_ThreeFromEnvironment ==
    cfg # NoObject =>
        /\ cfg.version = PyStr(<<"1", ".", "0", ".", "0">>)
        /\ cfg.environment = PyStr(IF "ENVIRONMENT" \in DOMAIN environ
                                   THEN environ["ENVIRONMENT"]
                                   ELSE <<"d", "e", "v", "e", "l", "o", "p", "m", "e", "n", "t">>)
        /\ "DEBUG" \notin DOMAIN environ => cfg.debug = PyBool(TRUE)
        /\ cfg.message_prefix = PyStr(IF "MESSAGE_PREFIX" \in DOMAIN environ
                                      THEN environ["MESSAGE_PREFIX"]
                                      ELSE <<"[", "D", "E", "M", "O", "]">>)

C5_Witness ==
    /\ called = "Config"
    /\ "VERSION" \in DOMAIN environ
    /\ environ["VERSION"] = <<"2", ".", "0">>
    /\ "ENVIRONMENT" \in DOMAIN environ
    /\ "MESSAGE_PREFIX" \notin DOMAIN environ
    /\ cfg.version = PyStr(V_1_0_0)

\* C6: whatever ENVIRONMENT, DEBUG and MESSAGE_PREFIX are (not set, empty or
\* any string), a Config has its four fields, to_dict() has exactly the keys
\* version, environment, debug and message_prefix, and debug is a boolean,
\* true exactly when DEBUG is not set or is "true" up to case.
C6_FieldsPopulated ==
    LET debug == \/ "DEBUG" \notin DOMAIN environ
                 \/ EqualsIgnoreCase(environ["DEBUG"], <<"t", "r", "u", "e">>)
    IN  /\ cfg # NoObject =>
            /\ DOMAIN cfg = {"version", "environment", "debug", "message_prefix"}
            /\ cfg.version.t = "str"
            /\ cfg.environment.t = "str"
            /\ cfg.message_prefix.t = "str"
            /\ cfg.debug.t = "bool"
            /\ cfg.debug.b = debug
        /\ called = "to_dict" =>
            /\ ret.t = "dict"
            /\ DOMAIN ret.d = {"version", "environment", "debug", "message_prefix"}
            /\ ret.d["debug"] = PyBool(debug)

C6_Witness ==
    /\ called = "to_dict"
    /\ "DEBUG" \in DOMAIN environ
    /\ environ["DEBUG"] = <<"T", "r", "U", "e">>
    /\ "ENVIRONMENT" \in DOMAIN environ
    /\ environ["ENVIRONMENT"] = <<>>
    /\ ret.d["debug"] = PyBool(TRUE)

\* C7, as stated: process_data returns a mapping with exactly the keys
\* original, processed_at, status and version, original being the input.
C7_KeyOriginal ==
    called = "process_data" =>
        /\ DOMAIN ret.d = {"original", "processed_at", "status", "version"}
        /\ ret.d["original"] = args.data
        /\ ret.d["status"] = PyStr(S_processed)
        /\ ret.d["version"] = app.version

\* C7, amended: process_data returns a mapping with exactly the keys
\* original_data, processed_at, status and version, in which original_data
\* is the input value, status is "processed" and version is the version
\* string of the application.
C7_KeyOriginalData ==
    called = "process_data" =>
        /\ exc = NoException
        /\ ret.t = "dict"
        /\ DOMAIN ret.d = {"original_data", "processed_at", "status", "version"}
        /\ ret.d["original_data"] = args.data
        /\ ret.d["status"] = PyStr(<<"p", "r", "o", "c", "e", "s", "s", "e", "d">>)
        /\ ret.d["version"] = app.version

C7_Witness ==
    /\ called = "process_data"
    /\ args.data = PyDict([k \in {"action"} |-> PyStr(S_login)])
    /\ "version" \notin DOMAIN app.config.d
    /\ ret.d["original_data"] = args.data
    /\ ret.d["version"] = PyStr(V_1_0_0)

\* the config file is a JSON object whose version is not a non-empty string
SuppliesOtherVersion(f) ==
    /\ f.kind = "text"
    /\ f.wellformed
    /\ f.doc.t = "dict"
    /\ "version" \in DOMAIN f.doc.d
    /\ ~NonEmptyStr(f.doc.d["version"])

\* C8, as stated: in every record either resolver produces version is a
\* non-empty string, and so is the version the application stores and copies
\* into its status and processed records.
C8_VersionNonEmpty ==
    /\ cfg # NoObject => NonEmptyStr(cfg.version)
    /\ app # NoObject =>
        /\ "version" \in DOMAIN app.config.d
        /\ NonEmptyStr(app.config.d["version"])
        /\ NonEmptyStr(app.version)
        /\ called \in {"get_status", "process_data"} => NonEmptyStr(ret.d["version"])

\* C8, amended: version is a non-empty string in every record of the
\* environment resolver and in the default record the file resolver returns
\* for a missing file; the record returned for malformed JSON holds no
\* version, and a record parsed from the file holds whatever the file gives.
\* The version the application stores and copies into its status and
\* processed records is a non-empty string unless the file itself gives a
\* version that is empty or not a string, which is stored as it is.
C8_VersionNonEmptyUnlessGiven ==
    /\ cfg # NoObject => NonEmptyStr(cfg.version)
    /\ app # NoObject =>
        /\ file.kind = "missing" =>
            /\ "version" \in DOMAIN app.config.d
            /\ NonEmptyStr(app.config.d["version"])
        /\ Malformed(file) => "version" \notin DOMAIN app.config.d
        /\ ~SuppliesOtherVersion(file) =>
            /\ NonEmptyStr(app.version)
            /\ called \in {"get_status", "process_data"} => NonEmptyStr(ret.d["version"])
        /\ SuppliesOtherVersion(file) => app.version = file.doc.d["version"]

C8_Witness ==
    /\ called = "get_status"
    /\ Malformed(file)
    /\ "version" \notin DOMAIN app.config.d
    /\ ret.d["version"] = PyStr(V_1_0_0)

\* C9: get_status() returns status "healthy", the version of the resolved
\* record ("1.0.0" when the record has none) and its environment ("unknown"
\* when it has none): "development" after a missing config file, "1.0.0" and
\* "unknown" after malformed JSON, whose record holds neither key.
C9_GetStatus ==
    called = "get_status" =>
        /\ exc = NoException
        /\ ret.t = "dict"
        /\ DOMAIN ret.d = {"status", "version", "timestamp", "environment"}
        /\ ret.d["status"] = PyStr(<<"h", "e", "a", "l", "t", "h", "y">>)
        /\ ret.d["version"] = IF "version" \in DOMAIN app.config.d
                              THEN app.config.d["version"]
                              ELSE PyStr(<<"1", ".", "0", ".", "0">>)
        /\ ret.d["environment"] = IF "environment" \in DOMAIN app.config.d
                                  THEN app.config.d["environment"]
                                  ELSE PyStr(<<"u", "n", "k", "n", "o", "w", "n">>)
        /\ file.kind = "missing" =>
            ret.d["environment"] = PyStr(<<"d", "e", "v", "e", "l", "o", "p", "m", "e", "n", "t">>)
        /\ Malformed(file) =>
            /\ DOMAIN app.config.d = {}
            /\ ret.d["version"] = PyStr(<<"1", ".", "0", ".", "0">>)
            /\ ret.d["environment"] = PyStr(<<"u", "n", "k", "n", "o", "w", "n">>)

C9_Witness ==
    /\ called = "get_status"
    /\ Malformed(file)
    /\ ret.d["environment"] = PyStr(S_unknown)

\* C10: once made, an application keeps the config record and the version
\* its construction left, whatever get_status, process_data and run calls
\* follow, and process_data leaves its input as it was; to_dict() and str()
\* leave the four fields of a Config as they were.
C10_NeverMutated ==
    /\ app # NoObject => (app = app0 /\ app.config = app0.config /\ app.version = app0.version)
    /\ cfg # NoObject => cfg = cfg0
    /\ called = "process_data" => argsAfter = args

C10_Witness ==
    /\ called = "process_data"
    /\ args.data.t = "dict"
    /\ argsAfter = args
    /\ app # NoObject
    /\ app = app0

====
